---------------------------- MODULE Spec2Model ----------------------------
(***************************************************************************)
(* Model of the LabVotoAI backend: the warehouse query layer               *)
(* (src/app/bigquery_client.py) and the report endpoints that call it      *)
(* (src/app/main.py).                                                      *)
(*                                                                         *)
(* One request is handled at a time: a handler action turns the idle       *)
(* server into one that holds the finished call in `resp`; Deliver hands   *)
(* the response back and the server is idle again.  Requests share no      *)
(* state, so nothing else survives a request.                              *)
(***************************************************************************)
EXTENDS Integers, Sequences, FiniteSets, TLC

VARIABLES pc, resp, usuarios, pendentes, tokens, now

vars == <<pc, resp, usuarios, pendentes, tokens, now>>

\* the user table, the create requests under way, the tokens held, the clock
userVars == <<usuarios, pendentes, tokens, now>>

-----------------------------------------------------------------------------
(* Bounds *)

\* longest party code / search term the requests carry
MaxLen == 2

-----------------------------------------------------------------------------
(* Python strings: sequences of one-character strings.  None is a value    *)
(* that is no string.                                                      *)

Chars == {"a", "A", " "}

Strs(n) == UNION {[1..k -> Chars] : k \in 0..n}

None == <<"None">>

\* Python truthiness of an Optional[str]: None and "" are falsy
Truthy(s) == s # None /\ s # <<>>

IsSpace(c) == c = " "

UpperChar(c) == IF c = "a" THEN "A" ELSE c

LowerChar(c) == IF c = "A" THEN "a" ELSE c

\* str.upper()
Upper(s) == [i \in DOMAIN s |-> UpperChar(s[i])]

\* str.lower()
Lower(s) == [i \in DOMAIN s |-> LowerChar(s[i])]

RECURSIVE LStrip(_)
LStrip(s) == IF s = <<>> \/ ~IsSpace(Head(s)) THEN s ELSE LStrip(Tail(s))

RECURSIVE RStrip(_)
RStrip(s) ==
    IF s = <<>> \/ ~IsSpace(s[Len(s)]) THEN s
    ELSE RStrip(SubSeq(s, 1, Len(s) - 1))

\* str.strip()
Strip(s) == RStrip(LStrip(s))

-----------------------------------------------------------------------------
(* Nullable numbers of the warehouse (NULL, or the rational num/den).      *)

Null == [kind |-> "null", num |-> 0, den |-> 1]

Val(n, d) == [kind |-> "val", num |-> n, den |-> d]

TypeError == [kind |-> "TypeError", num |-> 0, den |-> 1]

IsNull(x) == x.kind = "null"

-----------------------------------------------------------------------------
(* The process environment read by get_bigquery_client, and the warehouse  *)
(* behind the client.                                                      *)

\* GOOGLE_CREDENTIALS_JSON, GOOGLE_APPLICATION_CREDENTIALS, and whether
\* application-default credentials can be found
Environs ==
    [credentials_json : {"unset", "valid", "malformed"},
     credentials_path : {"unset"},
     adc : {"available"}]
    \cup
    [credentials_json : {"unset"},
     credentials_path : {"valid", "missing_file"},
     adc : {"available"}]
    \cup
    [credentials_json : {"unset"},
     credentials_path : {"unset"},
     adc : {"unavailable"}]

\* get_bigquery_client(): "client", or the class of the exception raised as
\* an `except` clause sees it.  json.loads raises JSONDecodeError, a subclass
\* of ValueError; a missing key file raises OSError and missing default
\* credentials DefaultCredentialsError, neither a ValueError.
GetBigqueryClient(env) ==
    IF env.credentials_json # "unset"
    THEN IF env.credentials_json = "malformed" THEN "ValueError" ELSE "client"
    ELSE IF env.credentials_path # "unset"
    THEN IF env.credentials_path = "missing_file" THEN "Exception" ELSE "client"
    ELSE IF env.adc = "unavailable" THEN "Exception" ELSE "client"

\* result of a call of a query-layer function
\*   clientObtained: get_bigquery_client was called
\*   issued/text/params: client.query(text, params) was called
\*   exc: "none", or the class of the exception that left the function
\*   origin: where that exception was raised
FnResult(clientObtained, issued, text, params, exc, origin, rows) ==
    [clientObtained |-> clientObtained, issued |-> issued, text |-> text,
     params |-> params, exc |-> exc, origin |-> origin, rows |-> rows]

\* the function raised before any query was issued
Raised(clientObtained, exc, origin) ==
    FnResult(clientObtained, FALSE, <<>>, <<>>, exc, origin, <<>>)

\* client.query(...).result(): the warehouse fails, or returns its rows
\* (a row conversion that raises leaves the function with that exception)
RunQuery(text, params, wh, rows, conversionFails) ==
    IF wh.fails
    THEN FnResult(TRUE, TRUE, text, params, "Exception", "warehouse", <<>>)
    ELSE IF conversionFails
    THEN FnResult(TRUE, TRUE, text, params, "Exception", "conversion", <<>>)
    ELSE FnResult(TRUE, TRUE, text, params, "none", "none", rows)

-----------------------------------------------------------------------------
(* buscar_cargos_eleitos_partido                                            *)

Abrangencias == {"Nacional", "Estadual", "Municipal", "Distrital"}

CargosBase ==
    <<"SELECT rc.cargo, COUNT(rc.cargo) AS total_cargos_eleitos FROM resultados_candidato rc LEFT JOIN dir_municipios mn ... WHERE rc.ano IN (2012, 2016, 2020, 2024) AND rc.sigla_partido = @partido AND rc.resultado LIKE 'eleito%'">>

CargosTail == <<"GROUP BY rc.cargo ORDER BY total_cargos_eleitos DESC">>

\* the party code formatted into the text instead of bound as @partido
CargosQueryText_Interpolated(partido, abrangencia, territorio, municipio) ==
    CargosBase \o <<"AND rc.sigla_partido = '">> \o partido \o <<"'">>
    \o (IF abrangencia = "Nacional"
        THEN <<"AND rc.sigla_uf IS NOT NULL AND mn.nome IS NOT NULL">>
        ELSE IF abrangencia = "Estadual"
        THEN <<"AND rc.sigla_uf = @sigla_uf AND mn.nome IS NOT NULL">>
        ELSE IF abrangencia = "Municipal"
        THEN <<"AND rc.sigla_uf = @sigla_uf AND mn.nome = @municipio">>
        ELSE <<>>)
    \o CargosTail

\* the query text, built by concatenation as the function builds it
CargosQueryText(partido, abrangencia, territorio, municipio) ==
    CargosBase
    \o (IF abrangencia = "Nacional"
        THEN <<"AND rc.sigla_uf IS NOT NULL AND mn.nome IS NOT NULL">>
        ELSE IF abrangencia = "Estadual"
        THEN <<"AND rc.sigla_uf = @sigla_uf AND mn.nome IS NOT NULL">>
        ELSE IF abrangencia = "Municipal"
        THEN <<"AND rc.sigla_uf = @sigla_uf AND mn.nome = @municipio">>
        ELSE <<>>)
    \o CargosTail

\* the named parameter bindings
CargosParams(partido, abrangencia, territorio, municipio) ==
    IF abrangencia = "Estadual"
    THEN [partido |-> Upper(partido), sigla_uf |-> Upper(territorio)]
    ELSE IF abrangencia = "Municipal"
    THEN [partido |-> Upper(partido), sigla_uf |-> Upper(territorio),
          municipio |-> municipio]
    ELSE [partido |-> Upper(partido)]

\* the ValueError checks of the Estadual and Municipal branches
CargosInvalid(abrangencia, territorio, municipio) ==
    \/ abrangencia = "Estadual" /\ ~Truthy(territorio)
    \/ abrangencia = "Municipal" /\ ~Truthy(territorio)
    \/ abrangencia = "Municipal" /\ ~Truthy(municipio)

\* the groups of GROUP BY rc.cargo with their COUNT, in the order the table
\* yields them
CargosGroups ==
    {<<>>} \cup
    {<<[cargo |-> "prefeito", total_cargos_eleitos |-> n]>> : n \in {1, 2}} \cup
    {<<[cargo |-> "prefeito", total_cargos_eleitos |-> n],
       [cargo |-> "vereador", total_cargos_eleitos |-> m]>> : n, m \in {1, 2}}

\* the groups in any order at all
OrderByCountDesc_Unordered(groups) ==
    {[i \in DOMAIN groups |-> groups[p[i]]] :
        p \in {q \in [DOMAIN groups -> DOMAIN groups] :
                  \A i, j \in DOMAIN groups : i # j => q[i] # q[j]}}

\* ORDER BY total_cargos_eleitos DESC: the orders the warehouse may return the
\* groups in; it has no further sort key, so groups of equal count come in
\* either order
OrderByCountDesc(groups) ==
    {r \in OrderByCountDesc_Unordered(groups) :
        \A i, j \in DOMAIN r :
            i < j => r[i].total_cargos_eleitos >= r[j].total_cargos_eleitos}

\* rows the warehouse returns for the grouped count
CargosData == UNION {OrderByCountDesc(g) : g \in CargosGroups}

CargosRows(data) ==
    [i \in DOMAIN data |->
        [cargo |-> data[i].cargo,
         total_cargos_eleitos |-> data[i].total_cargos_eleitos]]

\* the client is obtained first (line 97), then the branch validates
BuscarCargosEleitosPartido(partido, abrangencia, territorio, municipio, env, wh) ==
    LET client == GetBigqueryClient(env)
    IN  IF client # "client" THEN Raised(TRUE, client, "client")
        ELSE IF CargosInvalid(abrangencia, territorio, municipio)
        THEN Raised(TRUE, "ValueError", "validation")
        ELSE RunQuery(CargosQueryText(partido, abrangencia, territorio, municipio),
                      CargosParams(partido, abrangencia, territorio, municipio),
                      wh, CargosRows(wh.data), FALSE)

-----------------------------------------------------------------------------
(* The finished call held in `resp`.                                       *)

Idle == [op |-> "none"]

\* the query layer was not called
NotCalled == Raised(FALSE, "none", "none")

NoEnv == [credentials_json |-> "-", credentials_path |-> "-", adc |-> "-"]

NoWh == [fails |-> FALSE, data |-> <<>>]

\* op: the handler; input: its arguments; called/args: the call it made of
\* the query layer; fn: that call's result; status: the HTTP status (0 for a
\* call of a query-layer function itself); env, wh: the environment and the
\* warehouse behaviour the call met, kept as far as the call read them
Done(op, input, called, args, fn, status, env, wh) ==
    [op |-> op, input |-> input, called |-> called, args |-> args, fn |-> fn,
     status |-> status,
     env |-> IF fn.clientObtained THEN env ELSE NoEnv,
     wh |-> IF fn.issued THEN wh ELSE NoWh]

HTTP_400 == 400

HTTP_500 == 500

\* try / except ValueError -> 400 / except Exception -> 500
StatusValueErrorAware(fn) ==
    IF fn.exc = "none" THEN 200
    ELSE IF fn.exc = "ValueError" THEN HTTP_400
    ELSE HTTP_500

\* try / except Exception -> 500
StatusCatchAll(fn) == IF fn.exc = "none" THEN 200 ELSE HTTP_500

PartyStrs == Strs(MaxLen)

\* a path segment is never empty
TerritorioPaths == {<<"a">>, <<"A">>, <<" ">>}

Municipios == {None, <<>>, <<"a">>, <<" ">>}

\* groups: the grouped counts; data: the rows as the warehouse returns them
CargosWh ==
    {[fails |-> TRUE, groups |-> <<>>, data |-> <<>>]} \cup
    UNION {{[fails |-> FALSE, groups |-> g, data |-> r] : r \in OrderByCountDesc(g)} :
              g \in CargosGroups}

-----------------------------------------------------------------------------
(* GET /api/v1/analise-partido/{partido}/{abrangencia}/{territorio}         *)

AbrangenciasValidas == {"Nacional", "Estadual", "Municipal"}

\* the endpoint without its own check of municipio
MunicipioFaltando_Unchecked(abrangencia, municipio) == FALSE

\* "Validar que para Municipal, municipio e obrigatorio"
MunicipioFaltando(abrangencia, municipio) ==
    abrangencia = "Municipal" /\ ~Truthy(municipio)

AnalisePartidoResult(partido, abrangencia, territorio, municipio, env, wh) ==
    LET input == [partido |-> partido, abrangencia |-> abrangencia,
                  territorio |-> territorio, municipio |-> municipio]
        args == [partido |-> partido, abrangencia |-> abrangencia,
                 territorio |-> IF abrangencia # "Nacional" THEN territorio ELSE None,
                 municipio |-> municipio]
        fn == BuscarCargosEleitosPartido(args.partido, args.abrangencia,
                                         args.territorio, args.municipio, env, wh)
    IN  IF abrangencia \notin AbrangenciasValidas
        THEN Done("analise_partido", input, FALSE, <<>>, NotCalled, HTTP_400, env, wh)
        ELSE IF MunicipioFaltando(abrangencia, municipio)
        THEN Done("analise_partido", input, FALSE, <<>>, NotCalled, HTTP_400, env, wh)
        ELSE Done("analise_partido", input, TRUE, args, fn,
                  StatusValueErrorAware(fn), env, wh)

AnalisePartido ==
    /\ pc = "idle"
    /\ \E partido \in PartyStrs \ {<<>>}, abrangencia \in Abrangencias,
          territorio \in TerritorioPaths, municipio \in Municipios,
          env \in Environs, wh \in CargosWh :
          resp' = AnalisePartidoResult(partido, abrangencia, territorio,
                                       municipio, env, wh)
    /\ pc' = "done"
    /\ UNCHANGED userVars

\* a call of the query-layer function itself
CallBuscarCargosEleitosPartido ==
    /\ pc = "idle"
    /\ \E partido \in PartyStrs, abrangencia \in Abrangencias,
          territorio \in TerritorioPaths \cup {None, <<>>},
          municipio \in Municipios, env \in Environs, wh \in CargosWh :
          LET args == [partido |-> partido, abrangencia |-> abrangencia,
                       territorio |-> territorio, municipio |-> municipio]
          IN  resp' = Done("buscar_cargos_eleitos_partido", args, TRUE, args,
                           BuscarCargosEleitosPartido(partido, abrangencia,
                                                      territorio, municipio, env, wh),
                           0, env, wh)
    /\ pc' = "done"
    /\ UNCHANGED userVars

-----------------------------------------------------------------------------
(* buscar_candidatos_por_nome and GET /api/v1/politicos/busca/{nome}        *)

MaxLimit == 500

MinLimit == 1

MinTermo == 2

CandidatosQueryText(termo, limit) ==
    <<"SELECT * FROM endless-datum-477312-h2.labvoto.candidatos WHERE LOWER(nome) LIKE LOWER(@termo) OR LOWER(nome_urna) LIKE LOWER(@termo) LIMIT @limit">>

CandidatosParams(termo, limit) ==
    [termo |-> <<"%">> \o termo \o <<"%">>, limit |-> limit]

\* rows matching the term; the warehouse returns at most @limit of them
CandidatosData == {<<>>, <<[nome |-> "x"]>>, <<[nome |-> "x"], [nome |-> "y"]>>}

CandidatosRows(data, limit) ==
    IF limit < 0 THEN <<>>
    ELSE SubSeq(data, 1, IF Len(data) < limit THEN Len(data) ELSE limit)

CandidatosWh ==
    {[fails |-> TRUE, data |-> <<>>]} \cup [fails : {FALSE}, data : CandidatosData]

\* no validation of its own
BuscarCandidatosPorNome(termo, limit, env, wh) ==
    LET client == GetBigqueryClient(env)
    IN  IF client # "client" THEN Raised(TRUE, client, "client")
        ELSE RunQuery(CandidatosQueryText(termo, limit),
                      CandidatosParams(termo, limit),
                      wh, CandidatosRows(wh.data, limit), FALSE)

\* only the upper limit enforced
ClampLimit_UpperOnly(limit) == IF limit > MaxLimit THEN MaxLimit ELSE limit

\* "Validar limite": two ifs in sequence
ClampLimit(limit) ==
    LET l1 == IF limit > MaxLimit THEN MaxLimit ELSE limit
    IN  IF l1 < MinLimit THEN MinLimit ELSE l1

\* the length taken of the untrimmed term
TermoCurto_Untrimmed(nome) == ~Truthy(nome) \/ Len(nome) < MinTermo

\* "Validar termo de busca"
TermoCurto(nome) == ~Truthy(nome) \/ Len(Strip(nome)) < MinTermo

Limits == {-1, 0, 1, 2, 100, 499, 500, 501, 10000}

BuscarPoliticoResult(nome, limit, env, wh) ==
    LET input == [nome |-> nome, limit |-> limit]
        args == [termo |-> Strip(nome), limit |-> ClampLimit(limit)]
        fn == BuscarCandidatosPorNome(args.termo, args.limit, env, wh)
    IN  IF TermoCurto(nome)
        THEN Done("buscar_politico", input, FALSE, <<>>, NotCalled, HTTP_400, env, wh)
        ELSE Done("buscar_politico", input, TRUE, args, fn, StatusCatchAll(fn), env, wh)

BuscarPolitico ==
    /\ pc = "idle"
    /\ \E nome \in Strs(MaxLen) \ {<<>>}, limit \in Limits,
          env \in Environs, wh \in CandidatosWh :
          resp' = BuscarPoliticoResult(nome, limit, env, wh)
    /\ pc' = "done"
    /\ UNCHANGED userVars

-----------------------------------------------------------------------------
(* Warehouse arithmetic and the conversion of its values to Python          *)

\* SAFE_DIVIDE(x, y): NULL when an operand is NULL or y is zero
SafeDivide(x, y) ==
    IF IsNull(x) \/ IsNull(y) \/ y.num = 0 THEN Null
    ELSE Val(x.num * y.den, x.den * y.num)

\* SAFE_MULTIPLY(x, k)
SafeMultiply(x, k) == IF IsNull(x) THEN Null ELSE Val(x.num * k, x.den)

\* float(v): raises TypeError on None
PyFloat(v) == IF IsNull(v) THEN TypeError ELSE v

\* float(v) without the None guard
FloatOrNone_Unguarded(v) == PyFloat(v)

\* float(v) if v is not None else None
FloatOrNone(v) == IF ~IsNull(v) THEN PyFloat(v) ELSE Null

\* int(v) if v is not None else 0
IntOrZero(v) == IF ~IsNull(v) THEN v ELSE Val(0, 1)

\* values a summed column can hold: NULL, zero, a positive number
Sums == {Null, Val(0, 1), Val(2, 1)}

-----------------------------------------------------------------------------
(* buscar_votos_partido (query layer)                                       *)

VotosQueryText(sigla_partido, sigla_uf, cargo, ano, turnos) ==
    <<"WITH votos_partido AS (... WHERE rcd.ano = @ano_alvo AND rcd.turno IN UNNEST(@turnos) AND rcd.sigla_partido = @sigla_partido AND rcd.sigla_uf = @sigla_uf AND rcd.cargo = @cargo AND rcd.resultado LIKE 'eleito%' ...), votos_validos_total AS (...) SELECT ..., SAFE_DIVIDE(v.votos_partido, t.votos_validos) AS prop_votos_validos, SAFE_MULTIPLY(SAFE_DIVIDE(v.votos_partido, t.votos_validos), 100) AS perc_votos_validos FROM votos_partido v LEFT JOIN votos_validos_total t USING (...) ORDER BY ano, sigla_uf, id_municipio_tse, cargo, perc_votos_validos DESC">>

\* the party code bound as given
VotosParams_AsGiven(sigla_partido, sigla_uf, cargo, ano, turnos) ==
    [ano_alvo |-> ano, turnos |-> turnos, sigla_partido |-> sigla_partido,
     sigla_uf |-> Upper(sigla_uf), cargo |-> Lower(cargo)]

VotosParams(sigla_partido, sigla_uf, cargo, ano, turnos) ==
    [ano_alvo |-> ano, turnos |-> turnos, sigla_partido |-> Upper(sigla_partido),
     sigla_uf |-> Upper(sigla_uf), cargo |-> Lower(cargo)]

\* one joined group: the party's votes and the valid votes of the locality
VotosData ==
    {<<>>} \cup {<<[votos_partido |-> vp, votos_validos |-> vv]>> : vp \in Sums, vv \in Sums}

\* the SELECT list, then the conversion of each row
VotosRows(data) ==
    [i \in DOMAIN data |->
        LET prop == SafeDivide(data[i].votos_partido, data[i].votos_validos)
            perc == SafeMultiply(prop, 100)
        IN  [votos_partido |-> data[i].votos_partido,
             votos_validos |-> data[i].votos_validos,
             prop_votos_validos |-> FloatOrNone(prop),
             perc_votos_validos |-> FloatOrNone(perc)]]

VotosWh ==
    {[fails |-> TRUE, data |-> <<>>]} \cup [fails : {FALSE}, data : VotosData]

TurnosDefault == <<1, 2>>

\* Optional[list[int]]: None, or a list
NoneList == [isNone |-> TRUE, list |-> <<>>]

SomeList(l) == [isNone |-> FALSE, list |-> l]

\* `if turnos is None: turnos = [1, 2]`, then the client, then the query
BuscarVotosPartido(sigla_partido, sigla_uf, cargo, ano, turnos, env, wh) ==
    LET tl == IF turnos.isNone THEN TurnosDefault ELSE turnos.list
        client == GetBigqueryClient(env)
        rows == VotosRows(wh.data)
    IN  IF client # "client" THEN Raised(TRUE, client, "client")
        ELSE RunQuery(VotosQueryText(sigla_partido, sigla_uf, cargo, ano, tl),
                      VotosParams(sigla_partido, sigla_uf, cargo, ano, tl), wh, rows,
                      \E i \in DOMAIN rows :
                          \/ rows[i].prop_votos_validos = TypeError
                          \/ rows[i].perc_votos_validos = TypeError)

-----------------------------------------------------------------------------
(* GET /api/v1/votos-partido                                                *)

AnoMin == 2000

AnoMax == 2100

\* `not s or not s.strip()`
Blank(s) == ~Truthy(s) \/ ~Truthy(Strip(s))

\* str.split(",")
RECURSIVE SplitAcc(_, _, _)
SplitAcc(s, cur, acc) ==
    IF s = <<>> THEN Append(acc, cur)
    ELSE IF Head(s) = "," THEN SplitAcc(Tail(s), <<>>, Append(acc, cur))
    ELSE SplitAcc(Tail(s), Append(cur, Head(s)), acc)

Split(s) == SplitAcc(s, <<>>, <<>>)

Digits == {"0", "1", "2", "3", "4", "5", "6", "7", "8", "9"}

DigitVal(c) ==
    CASE c = "0" -> 0 [] c = "1" -> 1 [] c = "2" -> 2 [] c = "3" -> 3
      [] c = "4" -> 4 [] c = "5" -> 5 [] c = "6" -> 6 [] c = "7" -> 7
      [] c = "8" -> 8 [] c = "9" -> 9

\* int(t) accepts t (of the modelled characters: digits, blank, comma, letter)
IntLiteral(t) == t # <<>> /\ \A i \in DOMAIN t : t[i] \in Digits

RECURSIVE IntOf(_)
IntOf(t) ==
    IF t = <<>> THEN 0
    ELSE 10 * IntOf(SubSeq(t, 1, Len(t) - 1)) + DigitVal(t[Len(t)])

\* the turnos parsed, but not checked to be 1 or 2
ProcessarTurnos_AnyNumber(turnos) ==
    LET parts == Split(turnos)
        toks == SelectSeq([i \in DOMAIN parts |-> Strip(parts[i])],
                          LAMBDA t : t # <<>>)
        lst == [i \in DOMAIN toks |-> IntOf(toks[i])]
    IN  IF ~Truthy(turnos) THEN [err |-> "none", list |-> TurnosDefault]
        ELSE IF \E i \in DOMAIN toks : ~IntLiteral(toks[i])
        THEN [err |-> "ValueError", list |-> <<>>]
        ELSE IF lst = <<>> THEN [err |-> "none", list |-> TurnosDefault]
        ELSE [err |-> "none", list |-> lst]

\* "Processar turnos": [int(t.strip()) for t in turnos.split(",") if t.strip()]
\* err: "none", "ValueError" (int() failed), "turno_invalido" (not 1 or 2)
ProcessarTurnos(turnos) ==
    LET parts == Split(turnos)
        toks == SelectSeq([i \in DOMAIN parts |-> Strip(parts[i])],
                          LAMBDA t : t # <<>>)
        lst == [i \in DOMAIN toks |-> IntOf(toks[i])]
    IN  IF ~Truthy(turnos) THEN [err |-> "none", list |-> TurnosDefault]
        ELSE IF \E i \in DOMAIN toks : ~IntLiteral(toks[i])
        THEN [err |-> "ValueError", list |-> <<>>]
        ELSE IF lst = <<>> THEN [err |-> "none", list |-> TurnosDefault]
        ELSE IF \E i \in DOMAIN lst : lst[i] \notin {1, 2}
        THEN [err |-> "turno_invalido", list |-> lst]
        ELSE [err |-> "none", list |-> lst]

VotosPartidoResult(sigla_partido, sigla_uf, cargo, ano, turnos, env, wh) ==
    LET input == [sigla_partido |-> sigla_partido, sigla_uf |-> sigla_uf,
                  cargo |-> cargo, ano |-> ano, turnos |-> turnos]
        pt == ProcessarTurnos(turnos)
        args == [sigla_partido |-> Strip(sigla_partido), sigla_uf |-> Strip(sigla_uf),
                 cargo |-> Strip(cargo), ano |-> ano, turnos |-> SomeList(pt.list)]
        fn == BuscarVotosPartido(args.sigla_partido, args.sigla_uf, args.cargo,
                                 args.ano, args.turnos, env, wh)
        reject == Done("votos_partido", input, FALSE, <<>>, NotCalled, HTTP_400, env, wh)
    IN  IF Blank(sigla_partido) \/ Blank(sigla_uf) \/ Blank(cargo) THEN reject
        ELSE IF ano < AnoMin \/ ano > AnoMax THEN reject
        ELSE IF pt.err # "none" THEN reject
        ELSE Done("votos_partido", input, TRUE, args, fn,
                  StatusValueErrorAware(fn), env, wh)

SiglasUf == {<<>>, <<" ">>, <<"a">>}

Cargos == {<<>>, <<" ">>, <<"A">>}

Anos == {1999, 2000, 2024, 2100, 2101}

\* None, "", "1", "2", "1,2", " 1, 2", "3", "1,3", "x", ",", "12", " ", "1,x"
TurnosValues ==
    {None, <<>>, <<"1">>, <<"2">>, <<"1", ",", "2">>,
     <<" ", "1", ",", " ", "2">>, <<"3">>, <<"1", ",", "3">>, <<"x">>, <<",">>,
     <<"1", "2">>, <<" ">>, <<"1", ",", "x">>}

\* a call of the query-layer function itself
CallBuscarVotosPartido ==
    /\ pc = "idle"
    /\ \E sigla_partido \in PartyStrs, ano \in {2024, 2101},
          turnos \in {NoneList, SomeList(<<>>), SomeList(<<1>>), SomeList(<<3>>)},
          env \in Environs, wh \in VotosWh :
          LET args == [sigla_partido |-> sigla_partido, sigla_uf |-> <<"a">>,
                       cargo |-> <<"A">>, ano |-> ano, turnos |-> turnos]
          IN  resp' = Done("buscar_votos_partido", args, TRUE, args,
                           BuscarVotosPartido(args.sigla_partido, args.sigla_uf,
                                              args.cargo, args.ano, args.turnos,
                                              env, wh),
                           0, env, wh)
    /\ pc' = "done"
    /\ UNCHANGED userVars

VotosPartido ==
    /\ pc = "idle"
    /\ \E sigla_partido \in PartyStrs, sigla_uf \in SiglasUf, cargo \in Cargos,
          ano \in Anos, turnos \in TurnosValues, env \in Environs, wh \in VotosWh :
          resp' = VotosPartidoResult(sigla_partido, sigla_uf, cargo, ano, turnos,
                                     env, wh)
    /\ pc' = "done"
    /\ UNCHANGED userVars

-----------------------------------------------------------------------------
(* buscar_custo_por_voto_eleitos and buscar_distribuicao_fundo_eleitoral    *)

\* the four `raise ValueError` checks that open both functions
CustoInvalido(anos, cargos, siglas_uf, sigla_partido) ==
    \/ Len(anos) = 0
    \/ Len(cargos) = 0
    \/ Len(siglas_uf) = 0
    \/ ~Truthy(sigla_partido)
    \/ ~Truthy(Strip(sigla_partido))

CustoQueryText(anos, cargos, siglas_uf, sigla_partido) ==
    <<"WITH votos_unificados AS (... WHERE r.ano IN UNNEST(@anos) AND r.cargo IN UNNEST(@cargos) AND r.sigla_partido = @sigla_partido AND r.resultado LIKE 'eleito%' AND r.sigla_uf IN UNNEST(@siglas_uf) ...), despesas AS (...) SELECT ..., v.votos, d.despesas_totais, SAFE_DIVIDE(d.despesas_totais, v.votos) AS custo_por_voto FROM votos_unificados v JOIN candidatos cd ... LEFT JOIN despesas d ... ORDER BY v.ano, v.sigla_uf, v.votos DESC">>

CustoParams(anos, cargos, siglas_uf, sigla_partido) ==
    [anos |-> anos, cargos |-> cargos, siglas_uf |-> siglas_uf,
     sigla_partido |-> Upper(sigla_partido)]

\* one candidate: summed votes, summed expenses, summed public revenue
CandidatoData ==
    {<<>>} \cup
    {<<[votos |-> v, despesas_totais |-> d, valor_fe_fp |-> r]>> :
        v \in Sums, d \in {Null, Val(0, 1), Val(3, 1)}, r \in {Null, Val(5, 1)}}

CandidatoWh ==
    {[fails |-> TRUE, data |-> <<>>]} \cup [fails : {FALSE}, data : CandidatoData]

CustoRows(data) ==
    [i \in DOMAIN data |->
        [votos |-> IntOrZero(data[i].votos),
         despesas_totais |-> FloatOrNone(data[i].despesas_totais),
         custo_por_voto |->
             FloatOrNone(SafeDivide(data[i].despesas_totais, data[i].votos))]]

BuscarCustoPorVotoEleitos(anos, cargos, siglas_uf, sigla_partido, env, wh) ==
    LET client == GetBigqueryClient(env)
        rows == CustoRows(wh.data)
    IN  IF CustoInvalido(anos, cargos, siglas_uf, sigla_partido)
        THEN Raised(FALSE, "ValueError", "validation")
        ELSE IF client # "client" THEN Raised(TRUE, client, "client")
        ELSE RunQuery(CustoQueryText(anos, cargos, siglas_uf, sigla_partido),
                      CustoParams(anos, cargos, siglas_uf, sigla_partido), wh, rows,
                      \E i \in DOMAIN rows :
                          \/ rows[i].despesas_totais = TypeError
                          \/ rows[i].custo_por_voto = TypeError)

FundoQueryText(anos, cargos, siglas_uf, sigla_partido) ==
    <<"WITH votos_unificados AS (... WHERE r.ano IN UNNEST(@anos) AND r.cargo IN UNNEST(@cargos) AND r.sigla_partido = @sigla_partido AND r.sigla_uf IN UNNEST(@siglas_uf) ...), receitas_publicas AS (... LIKE '%fundo partid_rio%' OR ... LIKE '%fundo especial%' OR ... LIKE '%fefc%' ...), despesas AS (...) SELECT ..., v.votos, rec.valor_fe_fp, d.despesas_totais, SAFE_DIVIDE(d.despesas_totais, v.votos) AS custo_por_voto FROM votos_unificados v JOIN candidatos cd ... LEFT JOIN receitas_publicas rec ... LEFT JOIN despesas d ... ORDER BY v.ano, v.sigla_uf, v.votos DESC">>

FundoParams(anos, cargos, siglas_uf, sigla_partido) ==
    [anos |-> anos, cargos |-> cargos, siglas_uf |-> siglas_uf,
     sigla_partido |-> Upper(sigla_partido)]

FundoRows(data) ==
    [i \in DOMAIN data |->
        [votos |-> IntOrZero(data[i].votos),
         valor_fe_fp |-> FloatOrNone(data[i].valor_fe_fp),
         despesas_totais |-> FloatOrNone(data[i].despesas_totais),
         custo_por_voto |->
             FloatOrNone(SafeDivide(data[i].despesas_totais, data[i].votos))]]

\* without the whitespace-only check of sigla_partido
FundoInvalido_NoStrip(anos, cargos, siglas_uf, sigla_partido) ==
    \/ Len(anos) = 0
    \/ Len(cargos) = 0
    \/ Len(siglas_uf) = 0
    \/ ~Truthy(sigla_partido)

FundoInvalido(anos, cargos, siglas_uf, sigla_partido) ==
    \/ Len(anos) = 0
    \/ Len(cargos) = 0
    \/ Len(siglas_uf) = 0
    \/ ~Truthy(sigla_partido)
    \/ ~Truthy(Strip(sigla_partido))

BuscarDistribuicaoFundoEleitoral(anos, cargos, siglas_uf, sigla_partido, env, wh) ==
    LET client == GetBigqueryClient(env)
        rows == FundoRows(wh.data)
    IN  IF FundoInvalido(anos, cargos, siglas_uf, sigla_partido)
        THEN Raised(FALSE, "ValueError", "validation")
        ELSE IF client # "client" THEN Raised(TRUE, client, "client")
        ELSE RunQuery(FundoQueryText(anos, cargos, siglas_uf, sigla_partido),
                      FundoParams(anos, cargos, siglas_uf, sigla_partido), wh, rows,
                      \E i \in DOMAIN rows :
                          \/ rows[i].valor_fe_fp = TypeError
                          \/ rows[i].despesas_totais = TypeError
                          \/ rows[i].custo_por_voto = TypeError)

AnosLists == {<<>>, <<2022>>, <<2018, 2022>>}

CargosLists == {<<>>, << <<"a">> >>}

SiglasUfLists == {<<>>, << <<"A">> >>}

CallBuscarCustoPorVotoEleitos ==
    /\ pc = "idle"
    /\ \E anos \in AnosLists, cargos \in CargosLists, siglas_uf \in SiglasUfLists,
          sigla_partido \in PartyStrs \cup {None},
          env \in Environs, wh \in CandidatoWh :
          LET args == [anos |-> anos, cargos |-> cargos, siglas_uf |-> siglas_uf,
                       sigla_partido |-> sigla_partido]
          IN  resp' = Done("buscar_custo_por_voto_eleitos", args, TRUE, args,
                           BuscarCustoPorVotoEleitos(anos, cargos, siglas_uf,
                                                     sigla_partido, env, wh),
                           0, env, wh)
    /\ pc' = "done"
    /\ UNCHANGED userVars

CallBuscarDistribuicaoFundoEleitoral ==
    /\ pc = "idle"
    /\ \E anos \in AnosLists, cargos \in CargosLists, siglas_uf \in SiglasUfLists,
          sigla_partido \in PartyStrs \cup {None},
          env \in Environs, wh \in CandidatoWh :
          LET args == [anos |-> anos, cargos |-> cargos, siglas_uf |-> siglas_uf,
                       sigla_partido |-> sigla_partido]
          IN  resp' = Done("buscar_distribuicao_fundo_eleitoral", args, TRUE, args,
                           BuscarDistribuicaoFundoEleitoral(anos, cargos, siglas_uf,
                                                            sigla_partido, env, wh),
                           0, env, wh)
    /\ pc' = "done"
    /\ UNCHANGED userVars

-----------------------------------------------------------------------------
(* Users, login and tokens.  The table usuarios is a set of rows; the      *)
(* columns cargo and municipio are stored and returned exactly like        *)
(* nome_completo and are left out, as are the two timestamps.  Texts of    *)
(* the answers are written without accents.                                *)

\* ids the table hands out
MaxUsers == 2

\* tokens the clients hold at a time
MaxTokens == 1

\* last minute of the clock
MaxTime == 31

\* create requests that may be between their check and their commit
MaxPendentes == 2

HTTP_201 == 201
HTTP_204 == 204
HTTP_401 == 401
HTTP_403 == 403
HTTP_404 == 404

ACCESS_TOKEN_EXPIRE_MINUTES == 30

Emails == {"a@x", "b@x"}

Senhas == {"p", "q"}

\* bcrypt.hashpw: a value that is not the password
GerarHashSenha(senha) == [alg |-> "bcrypt", senha |-> senha]

\* bcrypt.checkpw
VerificarSenha(senha_plana, senha_hash) == senha_hash.senha = senha_plana

\* the column atualizado_em: NULL until the row's first UPDATE, then the time
\* of the last one
NuncaAtualizado == [kind |-> "null"]

Instante(t) == [kind |-> "time", t |-> t]

\* rows with the given email / id
PorEmail(tbl, email) == {u \in tbl : u.email = email}

\* every row, whatever its id
PorId_AnyRow(tbl, id) == tbl

PorId(tbl, id) == {u \in tbl : u.id = id}

\* .first() of a query that matches at most one row
First(rows) == CHOOSE u \in rows : TRUE

\* the whole row, hash included
UsuarioResponse_WholeRow(u) == u

\* schemas.UsuarioResponse: the read-model of a row
UsuarioResponse(u) ==
    [id |-> u.id, nome_completo |-> u.nome_completo, email |-> u.email,
     uf |-> u.uf, ativo |-> u.ativo, atualizado_em |-> u.atualizado_em]

\* what the request carries as bearer token
NoToken == [kind |-> "none"]

InvalidToken == [kind |-> "invalid"]

\* jwt.encode of {"sub": ..., "exp": utcnow + 30 minutes}
CriarTokenAcesso(sub, t) ==
    [kind |-> "jwt", sub |-> sub, exp |-> t + ACCESS_TOKEN_EXPIRE_MINUTES]

NoUsuario == [id |-> 0]

Rejeitado(status, detail) ==
    [status |-> status, detail |-> detail, usuario |-> NoUsuario]

\* verificar_token without the ativo check
VerificarToken_IgnoreAtivo(cred, tbl, t) ==
    IF cred.kind = "none" THEN Rejeitado(HTTP_401, "Not authenticated")
    ELSE IF cred.kind = "invalid" \/ cred.exp < t
    THEN Rejeitado(HTTP_401, "Nao foi possivel validar as credenciais")
    ELSE IF PorEmail(tbl, cred.sub) = {}
    THEN Rejeitado(HTTP_401, "Nao foi possivel validar as credenciais")
    ELSE [status |-> 200, detail |-> "", usuario |-> First(PorEmail(tbl, cred.sub))]

\* verificar_token without the expiry check of jwt.decode
VerificarToken_IgnoreExp(cred, tbl, t) ==
    IF cred.kind = "none" THEN Rejeitado(HTTP_401, "Not authenticated")
    ELSE IF cred.kind = "invalid"
    THEN Rejeitado(HTTP_401, "Nao foi possivel validar as credenciais")
    ELSE IF PorEmail(tbl, cred.sub) = {}
    THEN Rejeitado(HTTP_401, "Nao foi possivel validar as credenciais")
    ELSE LET usuario == First(PorEmail(tbl, cred.sub)) IN
         IF ~usuario.ativo THEN Rejeitado(HTTP_403, "Usuario inativo")
         ELSE [status |-> 200, detail |-> "", usuario |-> usuario]

\* auth.verificar_token at time t: a missing header is refused by the bearer
\* scheme; jwt.decode refuses a bad signature and an exp before now; the
\* subject email is looked up in the table
VerificarToken(cred, tbl, t) ==
    IF cred.kind = "none" THEN Rejeitado(HTTP_401, "Not authenticated")
    ELSE IF cred.kind = "invalid" \/ cred.exp < t
    THEN Rejeitado(HTTP_401, "Nao foi possivel validar as credenciais")
    ELSE IF PorEmail(tbl, cred.sub) = {}
    THEN Rejeitado(HTTP_401, "Nao foi possivel validar as credenciais")
    ELSE LET usuario == First(PorEmail(tbl, cred.sub)) IN
         IF ~usuario.ativo THEN Rejeitado(HTTP_403, "Usuario inativo")
         ELSE [status |-> 200, detail |-> "", usuario |-> usuario]

\* the answer of a user operation; auth is the outcome of verificar_token
\* (0 where the operation takes no token), body the read-models returned
Resposta(op, input, cred, auth, status, detail, body, token) ==
    [op |-> op, input |-> input, cred |-> cred, auth |-> auth,
     status |-> status, detail |-> detail, body |-> body, token |-> token]

\* an answer and the table it leaves
Efeito(r, tbl) == [resp |-> r, tbl |-> tbl]

\* login that does not look at ativo
LoginResult_IgnoreAtivo(req, tbl, t) ==
    LET found == PorEmail(tbl, req.email) IN
    IF found = {}
    THEN Resposta("login", req, NoToken, 0, HTTP_401, "Email ou senha incorretos",
                  {}, NoToken)
    ELSE IF ~VerificarSenha(req.senha, First(found).senha_hash)
    THEN Resposta("login", req, NoToken, 0, HTTP_401, "Email ou senha incorretos",
                  {}, NoToken)
    ELSE Resposta("login", req, NoToken, 0, 200, "", {},
                  CriarTokenAcesso(First(found).email, t))

\* login: the answer; token is NoToken unless one is issued
LoginResult(req, tbl, t) ==
    LET found == PorEmail(tbl, req.email) IN
    IF found = {}
    THEN Resposta("login", req, NoToken, 0, HTTP_401, "Email ou senha incorretos",
                  {}, NoToken)
    ELSE IF ~VerificarSenha(req.senha, First(found).senha_hash)
    THEN Resposta("login", req, NoToken, 0, HTTP_401, "Email ou senha incorretos",
                  {}, NoToken)
    ELSE IF ~First(found).ativo
    THEN Resposta("login", req, NoToken, 0, HTTP_403, "Usuario inativo", {}, NoToken)
    ELSE Resposta("login", req, NoToken, 0, 200, "", {},
                  CriarTokenAcesso(First(found).email, t))

\* the operation body runs whatever verificar_token says
Protegido_Unchecked(op, input, cred, tbl, t, corpo) == corpo

\* Depends(auth.verificar_token): the body runs only when the token is admitted
Protegido(op, input, cred, tbl, t, corpo) ==
    LET v == VerificarToken(cred, tbl, t) IN
    IF v.status # 200
    THEN Efeito(Resposta(op, input, cred, v.status, v.status, v.detail, {}, NoToken),
                tbl)
    ELSE corpo

\* buscar: a fixed list of results, none of them a user
BuscarResult(input, cred, tbl, t) ==
    Protegido("buscar", input, cred, tbl, t,
        Efeito(Resposta("buscar", input, cred, 200, 200, "", {}, NoToken), tbl))

\* listar_usuarios with the default skip = 0 and limit = 100
ListarUsuariosResult(input, cred, tbl, t) ==
    Protegido("listar_usuarios", input, cred, tbl, t,
        Efeito(Resposta("listar_usuarios", input, cred, 200, 200, "",
                        {UsuarioResponse(u) : u \in tbl}, NoToken), tbl))

ObterUsuarioResult(input, cred, tbl, t) ==
    Protegido("obter_usuario", input, cred, tbl, t,
        IF PorId(tbl, input.usuario_id) = {}
        THEN Efeito(Resposta("obter_usuario", input, cred, 200, HTTP_404,
                             "Usuario nao encontrado", {}, NoToken), tbl)
        ELSE Efeito(Resposta("obter_usuario", input, cred, 200, 200, "",
                             {UsuarioResponse(First(PorId(tbl, input.usuario_id)))},
                             NoToken), tbl))

\* the row a create request stores under the id the table assigns
NovoUsuario(req, id) ==
    [id |-> id, nome_completo |-> req.nome_completo, email |-> req.email,
     senha_hash |-> GerarHashSenha(req.senha),
     uf |-> IF Truthy(req.uf) THEN Upper(req.uf) ELSE None,
     ativo |-> TRUE, atualizado_em |-> NuncaAtualizado]

\* criar_usuario that does not look for the email first
EmailJaCadastrado_Unchecked(req, tbl) == FALSE

\* the existence check of criar_usuario
EmailJaCadastrado(req, tbl) == PorEmail(tbl, req.email) # {}

CriarUsuarioConflito(req) ==
    Resposta("criar_usuario", req, NoToken, 0, HTTP_400, "Email ja cadastrado",
             {}, NoToken)

\* a table without the index: no row is refused
EmailIndexRefuses_NoIndex(tbl, email, id) == FALSE

\* unique=True on usuarios.email: the table refuses to give row id an email
\* another row holds
EmailIndexRefuses(tbl, email, id) == \E o \in tbl : o.email = email /\ o.id # id

\* db.add; db.commit; db.refresh: the unique index on email refuses a second
\* row with the email, and criar_usuario does not catch that error, which is
\* answered 500
GravarUsuario(req, tbl, id) ==
    IF EmailIndexRefuses(tbl, req.email, id)
    THEN Efeito(Resposta("criar_usuario", req, NoToken, 0, HTTP_500,
                         "IntegrityError", {}, NoToken), tbl)
    ELSE Efeito(Resposta("criar_usuario", req, NoToken, 0, HTTP_201, "",
                         {UsuarioResponse(NovoUsuario(req, id))}, NoToken),
                tbl \cup {NovoUsuario(req, id)})

\* the whole of criar_usuario, run without interruption
CriarUsuarioResult(req, tbl, id) ==
    IF EmailJaCadastrado(req, tbl) THEN Efeito(CriarUsuarioConflito(req), tbl)
    ELSE GravarUsuario(req, tbl, id)

\* the ids a new row may get: one no stored row has
IdsNovos(tbl) ==
    LET livres == (1..MaxUsers) \ {u.id : u \in tbl}
    IN IF livres = {} THEN {MaxUsers + 1} ELSE livres

Campo(data, f, atual) == IF f \in DOMAIN data THEN data[f] ELSE atual

\* model_dump(exclude_unset=True), senha replaced by its hash under
\* senha_hash, a non-empty uf upper-cased
UpdateData(upd) ==
    [f \in (DOMAIN upd \ {"senha"}) \cup
           (IF "senha" \in DOMAIN upd THEN {"senha_hash"} ELSE {}) |->
        IF f = "senha_hash" THEN GerarHashSenha(upd["senha"])
        ELSE IF f = "uf" /\ Truthy(upd[f]) THEN Upper(upd[f])
        ELSE upd[f]]

\* the columns of the update data the session sees as changed against the
\* row it read; a hash is salted anew and never equal to the one read
Alterados(lido, data) ==
    [f \in {g \in DOMAIN data : g = "senha_hash" \/ data[g] # lido[g]} |-> data[f]]

\* an UPDATE that also puts the columns not named back to what a new row has
Aplicar_Reset(usuario, data, t) ==
    [id |-> usuario.id,
     nome_completo |-> Campo(data, "nome_completo", usuario.nome_completo),
     email |-> Campo(data, "email", usuario.email),
     senha_hash |-> Campo(data, "senha_hash", usuario.senha_hash),
     uf |-> Campo(data, "uf", None),
     ativo |-> Campo(data, "ativo", TRUE),
     atualizado_em |-> IF DOMAIN data = {} THEN usuario.atualizado_em
                       ELSE Instante(t)]

\* the UPDATE at time t of the changed columns data: each is set, and with any
\* of them atualizado_em (onupdate=func.now())
Aplicar(usuario, data, t) ==
    [id |-> usuario.id,
     nome_completo |-> Campo(data, "nome_completo", usuario.nome_completo),
     email |-> Campo(data, "email", usuario.email),
     senha_hash |-> Campo(data, "senha_hash", usuario.senha_hash),
     uf |-> Campo(data, "uf", usuario.uf),
     ativo |-> Campo(data, "ativo", usuario.ativo),
     atualizado_em |-> IF DOMAIN data = {} THEN usuario.atualizado_em
                       ELSE Instante(t)]

\* atualizar_usuario that does not look for the email first
EmailEmUso_Unchecked(usuario, upd, tbl) == FALSE

\* the email of the update is another row's
EmailEmUso(usuario, upd, tbl) ==
    /\ "email" \in DOMAIN upd
    /\ upd["email"] # usuario.email
    /\ \E o \in tbl : o.email = upd["email"] /\ o.id # usuario.id

AtualizarUsuarioResult(input, cred, tbl, t) ==
    Protegido("atualizar_usuario", input, cred, tbl, t,
        IF PorId(tbl, input.usuario_id) = {}
        THEN Efeito(Resposta("atualizar_usuario", input, cred, 200, HTTP_404,
                             "Usuario nao encontrado", {}, NoToken), tbl)
        ELSE LET usuario == First(PorId(tbl, input.usuario_id))
                 novo == Aplicar(usuario,
                                 Alterados(usuario, UpdateData(input.update)), t)
             IN IF EmailEmUso(usuario, input.update, tbl)
                THEN Efeito(Resposta("atualizar_usuario", input, cred, 200, HTTP_400,
                                     "Email ja esta em uso por outro usuario", {},
                                     NoToken), tbl)
                ELSE Efeito(Resposta("atualizar_usuario", input, cred, 200, 200, "",
                                     {UsuarioResponse(novo)}, NoToken),
                            (tbl \ {usuario}) \cup {novo}))

DeletarUsuarioResult(input, cred, tbl, t) ==
    Protegido("deletar_usuario", input, cred, tbl, t,
        IF PorId(tbl, input.usuario_id) = {}
        THEN Efeito(Resposta("deletar_usuario", input, cred, 200, HTTP_404,
                             "Usuario nao encontrado", {}, NoToken), tbl)
        ELSE Efeito(Resposta("deletar_usuario", input, cred, 200, HTTP_204, "", {},
                             NoToken),
                    tbl \ PorId(tbl, input.usuario_id)))

\* the bearer tokens a request may carry
Credenciais == {NoToken, InvalidToken} \cup {k.jwt : k \in tokens}

UserIds == 1..MaxUsers

LoginRequests == [email : Emails, senha : Senhas]

\* UsuarioCreate bodies
UsuarioCreates ==
    [nome_completo : {"n"}, email : Emails, senha : {"p"}, uf : {None}]

\* UsuarioUpdate bodies: the fields that were set
UsuarioUpdates ==
    {[email |-> e] : e \in Emails} \cup
    {[senha |-> "q"], [ativo |-> FALSE], [ativo |-> TRUE],
     [email |-> "b@x", ativo |-> FALSE]}

\* a finished request changes the table and the answer only
Responde(efeito) ==
    /\ resp' = efeito.resp
    /\ usuarios' = efeito.tbl
    /\ pc' = "done"
    /\ UNCHANGED <<pendentes, tokens, now>>

Login ==
    /\ pc = "idle"
    /\ Cardinality(tokens) < MaxTokens
    /\ \E req \in LoginRequests :
          LET r == LoginResult(req, usuarios, now) IN
          /\ resp' = r
          /\ tokens' = IF r.token = NoToken THEN tokens
                       ELSE tokens \cup
                            {[jwt |-> r.token,
                              usuario_id |-> First(PorEmail(usuarios, req.email)).id]}
    /\ pc' = "done"
    /\ UNCHANGED <<usuarios, pendentes, now>>

Buscar ==
    /\ pc = "idle"
    /\ \E cred \in Credenciais :
          Responde(BuscarResult([query |-> "q"], cred, usuarios, now))

ListarUsuarios ==
    /\ pc = "idle"
    /\ \E cred \in Credenciais :
          Responde(ListarUsuariosResult([skip |-> 0, limit |-> 100], cred,
                                        usuarios, now))

ObterUsuario ==
    /\ pc = "idle"
    /\ \E cred \in Credenciais, id \in UserIds :
          Responde(ObterUsuarioResult([usuario_id |-> id], cred, usuarios, now))

CriarUsuario ==
    /\ pc = "idle"
    /\ \E req \in UsuarioCreates, id \in IdsNovos(usuarios) :
          Responde(CriarUsuarioResult(req, usuarios, id))

AtualizarUsuario ==
    /\ pc = "idle"
    /\ \E cred \in Credenciais, id \in UserIds, upd \in UsuarioUpdates :
          Responde(AtualizarUsuarioResult([usuario_id |-> id, update |-> upd],
                                          cred, usuarios, now))

DeletarUsuario ==
    /\ pc = "idle"
    /\ \E cred \in Credenciais, id \in UserIds :
          Responde(DeletarUsuarioResult([usuario_id |-> id], cred, usuarios, now))

\* a validity window passes, and a minute more
Tick ==
    /\ pc = "idle"
    /\ now + ACCESS_TOKEN_EXPIRE_MINUTES + 1 <= MaxTime
    /\ now' = now + ACCESS_TOKEN_EXPIRE_MINUTES + 1
    /\ UNCHANGED <<pc, resp, usuarios, pendentes, tokens>>

\* a client throws a token away
DescartarToken ==
    /\ pc = "idle"
    /\ \E k \in tokens : tokens' = tokens \ {k}
    /\ UNCHANGED <<pc, resp, usuarios, pendentes, now>>

\* criar_usuario up to its existence check: refused, or on its way to commit
CriarUsuarioVerificar ==
    /\ pc = "idle"
    /\ \E req \in UsuarioCreates :
          IF EmailJaCadastrado(req, usuarios)
          THEN /\ resp' = CriarUsuarioConflito(req)
               /\ pc' = "done"
               /\ UNCHANGED <<usuarios, pendentes, tokens, now>>
          ELSE /\ Cardinality(pendentes) < MaxPendentes
               /\ pendentes' = pendentes \cup
                      {[task |-> CHOOSE n \in 1..MaxPendentes :
                                     /\ \A p \in pendentes : p.task # n
                                     /\ \A m \in 1..(n - 1) :
                                            \E p \in pendentes : p.task = m,
                        op |-> "criar_usuario", req |-> req]}
               /\ UNCHANGED <<pc, resp, usuarios, tokens, now>>

\* criar_usuario from db.add to the answer
CriarUsuarioGravar ==
    /\ pc = "idle"
    /\ \E p \in pendentes, id \in IdsNovos(usuarios) :
          LET e == GravarUsuario(p.req, usuarios, id) IN
          /\ p.op = "criar_usuario"
          /\ resp' = e.resp
          /\ usuarios' = e.tbl
          /\ pendentes' = pendentes \ {p}
    /\ pc' = "done"
    /\ UNCHANGED <<tokens, now>>

\* db.commit of atualizar_usuario for the row read earlier as lido: UPDATE of
\* the changed columns WHERE id; a row gone meanwhile and an email the index
\* refuses both end in an error the route does not catch
GravarAtualizacao(input, cred, lido, tbl, t) ==
    LET data == Alterados(lido, UpdateData(input.update)) IN
    IF PorId(tbl, lido.id) = {}
    THEN Efeito(Resposta("atualizar_usuario", input, cred, 200, HTTP_500,
                         "StaleDataError", {}, NoToken), tbl)
    ELSE LET novo == Aplicar(First(PorId(tbl, lido.id)), data, t) IN
         IF "email" \in DOMAIN data /\ EmailIndexRefuses(tbl, novo.email, lido.id)
         THEN Efeito(Resposta("atualizar_usuario", input, cred, 200, HTTP_500,
                              "IntegrityError", {}, NoToken), tbl)
         ELSE Efeito(Resposta("atualizar_usuario", input, cred, 200, 200, "",
                              {UsuarioResponse(novo)}, NoToken),
                     (tbl \ PorId(tbl, lido.id)) \cup {novo})

\* the updates that race for an email
UsuarioUpdatesEmail == {[email |-> e] : e \in Emails}

\* the tokens login issues at this moment: one for each active row, to the
\* client that gives its email and password
TokensDeLogin == {CriarTokenAcesso(u.email, now) : u \in {w \in usuarios : w.ativo}}

\* atualizar_usuario up to its email check: answered there, or on its way to
\* commit with the row it read
AtualizarUsuarioVerificar ==
    /\ pc = "idle"
    /\ \E cred \in TokensDeLogin, id \in UserIds, upd \in UsuarioUpdatesEmail :
          LET input == [usuario_id |-> id, update |-> upd]
              e == AtualizarUsuarioResult(input, cred, usuarios, now)
          IN IF e.resp.status # 200
             THEN /\ resp' = e.resp
                  /\ pc' = "done"
                  /\ UNCHANGED <<usuarios, pendentes, tokens, now>>
             ELSE /\ Cardinality(pendentes) < MaxPendentes
                  /\ pendentes' = pendentes \cup
                         {[task |-> CHOOSE n \in 1..MaxPendentes :
                                        /\ \A p \in pendentes : p.task # n
                                        /\ \A m \in 1..(n - 1) :
                                               \E p \in pendentes : p.task = m,
                           op |-> "atualizar_usuario", req |-> input,
                           cred |-> cred, lido |-> First(PorId(usuarios, id))]}
                  /\ UNCHANGED <<pc, resp, usuarios, tokens, now>>

\* atualizar_usuario from the setattr loop to the answer
AtualizarUsuarioGravar ==
    /\ pc = "idle"
    /\ \E p \in pendentes :
          /\ p.op = "atualizar_usuario"
          /\ LET e == GravarAtualizacao(p.req, p.cred, p.lido, usuarios, now) IN
             /\ resp' = e.resp
             /\ usuarios' = e.tbl
             /\ pendentes' = pendentes \ {p}
    /\ pc' = "done"
    /\ UNCHANGED <<tokens, now>>

\* UsuarioUpdate bodies over every kind of column: plain, uf (lower case and
\* empty), senha, ativo, email, two at once, and none at all
UsuarioUpdatesCampos ==
    {[nome_completo |-> "m"], [uf |-> <<"a">>], [uf |-> <<>>], [senha |-> "q"],
     [ativo |-> FALSE], [email |-> "b@x"], [nome_completo |-> "m", uf |-> <<"a">>],
     [f \in {} |-> TRUE]}

\* atualizar_usuario by a client just logged in
AtualizarUsuarioCampos ==
    /\ pc = "idle"
    /\ \E cred \in TokensDeLogin, id \in UserIds, upd \in UsuarioUpdatesCampos :
          Responde(AtualizarUsuarioResult([usuario_id |-> id, update |-> upd],
                                          cred, usuarios, now))

\* deletar_usuario by a client just logged in
DeletarUsuarioLogado ==
    /\ pc = "idle"
    /\ \E cred \in TokensDeLogin, id \in UserIds :
          Responde(DeletarUsuarioResult([usuario_id |-> id], cred, usuarios, now))

-----------------------------------------------------------------------------

\* the response leaves the server; nothing of the request is kept
Deliver ==
    /\ pc = "done"
    /\ pc' = "idle"
    /\ resp' = Idle
    /\ UNCHANGED userVars

\* no request under way; the table as create_all leaves it
Init ==
    /\ pc = "idle"
    /\ resp = Idle
    /\ usuarios = {}
    /\ pendentes = {}
    /\ tokens = {}
    /\ now = 0

Next ==
    \/ AnalisePartido
    \/ CallBuscarCargosEleitosPartido
    \/ BuscarPolitico
    \/ VotosPartido
    \/ CallBuscarVotosPartido
    \/ CallBuscarCustoPorVotoEleitos
    \/ CallBuscarDistribuicaoFundoEleitoral
    \/ Deliver

Spec == Init /\ [][Next]_vars

\* the user and login endpoints, each request handled without interruption
UserNext ==
    \/ Login
    \/ Buscar
    \/ ListarUsuarios
    \/ ObterUsuario
    \/ CriarUsuario
    \/ AtualizarUsuario
    \/ DeletarUsuario
    \/ Tick
    \/ DescartarToken
    \/ Deliver

UserSpec == Init /\ [][UserNext]_vars

\* create requests handled at the same time
CriarNext ==
    \/ CriarUsuarioVerificar
    \/ CriarUsuarioGravar
    \/ Deliver

CriarSpec == Init /\ [][CriarNext]_vars

\* create and update requests handled at the same time, and deletes, the
\* clients logging in right before they ask
ConcNext ==
    \/ CriarUsuarioVerificar
    \/ CriarUsuarioGravar
    \/ AtualizarUsuarioVerificar
    \/ AtualizarUsuarioGravar
    \/ DeletarUsuarioLogado
    \/ Deliver

ConcSpec == Init /\ [][ConcNext]_vars

\* creates and updates of every kind of column, each request handled without
\* interruption, the clients logging in right before they ask
CamposNext ==
    \/ CriarUsuario
    \/ AtualizarUsuarioCampos
    \/ Tick
    \/ Deliver

CamposSpec == Init /\ [][CamposNext]_vars

-----------------------------------------------------------------------------
(* Properties                                                               *)

Finished(op) == pc = "done" /\ resp.op = op

\* absent or empty
Missing(s) == s = None \/ s = <<>>

\* C1: every analise-partido request with abrangencia Municipal and municipio
\* absent or empty is answered 400 and hands no query to the warehouse client
C1_MunicipalWithoutMunicipio ==
    (/\ Finished("analise_partido")
     /\ resp.input.abrangencia = "Municipal"
     /\ Missing(resp.input.municipio))
    => (resp.status = 400 /\ ~resp.fn.issued)

C1_Witness ==
    /\ Finished("analise_partido")
    /\ resp.input.abrangencia = "Municipal"
    /\ resp.input.municipio = None
    /\ resp.input.partido = <<"a", "A">>
    /\ resp.status = 400

\* C2: every call of buscar_cargos_eleitos_partido with abrangencia Estadual
\* or Municipal and territorio absent or empty ends in the validation
\* ValueError, and no query is executed
C2_TerritorioRequired ==
    (/\ Finished("buscar_cargos_eleitos_partido")
     /\ resp.input.abrangencia \in {"Estadual", "Municipal"}
     /\ Missing(resp.input.territorio))
    => (resp.fn.exc = "ValueError" /\ ~resp.fn.issued)

\* C3: a request that ends in a validation error has neither obtained the
\* warehouse client nor issued a query
C3_ValidationBeforeExternalCall ==
    (pc = "done" /\ resp.fn.origin = "validation")
    => (~resp.fn.clientObtained /\ ~resp.fn.issued)

\* C4: at the report endpoints a validation error of the query layer is
\* answered 400, and every other failure of the query layer or of the
\* warehouse client is answered 500
C4_ErrorMapping ==
    (/\ pc = "done"
     /\ resp.op \in {"analise_partido", "buscar_politico", "votos_partido"}
     /\ resp.called)
    => (/\ resp.fn.origin = "validation" => resp.status = 400
        /\ resp.fn.origin \in {"client", "warehouse", "conversion"}
               => resp.status = 500)

\* the texts each report builds over all the caller's values
CargosTexts ==
    [ab \in Abrangencias |->
        {CargosQueryText(p, ab, t, m) :
            p \in PartyStrs, t \in TerritorioPaths, m \in Municipios \ {None}}]

CandidatosTexts == {CandidatosQueryText(t, l) : t \in Strs(MaxLen), l \in Limits}

VotosTexts ==
    {VotosQueryText(p, u, c, a, tl) :
        p \in PartyStrs, u \in SiglasUf, c \in Cargos, a \in Anos,
        tl \in {<<1>>, <<2>>, <<1, 2>>}}

CustoTexts ==
    {CustoQueryText(a, c, u, p) :
        a \in AnosLists, c \in CargosLists, u \in SiglasUfLists, p \in PartyStrs}

FundoTexts ==
    {FundoQueryText(a, c, u, p) :
        a \in AnosLists, c \in CargosLists, u \in SiglasUfLists, p \in PartyStrs}

\* C5: the query text issued does not depend on the caller's values: it is
\* the one text the same report (for the seat count, with the same
\* abrangencia) builds for every party, territory, municipality, term,
\* limit, office, year and list
C5_QueryTextIndependentOfInput ==
    (pc = "done" /\ resp.fn.issued) =>
        /\ resp.op \in {"analise_partido", "buscar_cargos_eleitos_partido"} =>
              CargosTexts[resp.args.abrangencia] = {resp.fn.text}
        /\ resp.op = "buscar_politico" => CandidatosTexts = {resp.fn.text}
        /\ resp.op \in {"votos_partido", "buscar_votos_partido"} =>
              VotosTexts = {resp.fn.text}
        /\ resp.op = "buscar_custo_por_voto_eleitos" => CustoTexts = {resp.fn.text}
        /\ resp.op = "buscar_distribuicao_fundo_eleitoral" =>
              FundoTexts = {resp.fn.text}

C5_Witness ==
    /\ Finished("analise_partido")
    /\ resp.fn.issued
    /\ resp.input.abrangencia = "Municipal"
    /\ resp.input.partido = <<"a", "A">>
    /\ resp.fn.params.partido = <<"A", "A">>

\* the two strings differ at most in letter case
SameIgnoringCase(s, t) ==
    /\ Len(s) = Len(t)
    /\ \A i \in 1..Len(s) :
           \/ s[i] = t[i]
           \/ {s[i], t[i]} = {"a", "A"}

\* the party code given to the query-layer function, and the one it bound
PartyGiven ==
    IF resp.op \in {"analise_partido", "buscar_cargos_eleitos_partido"}
    THEN resp.args.partido ELSE resp.args.sigla_partido

PartyBound ==
    IF resp.op \in {"analise_partido", "buscar_cargos_eleitos_partido"}
    THEN resp.fn.params.partido ELSE resp.fn.params.sigla_partido

PartyReports ==
    {"analise_partido", "buscar_cargos_eleitos_partido", "votos_partido",
     "buscar_votos_partido", "buscar_custo_por_voto_eleitos",
     "buscar_distribuicao_fundo_eleitoral"}

\* the party parameter the report would bind for party code p, all else equal
PartyBoundFor(p) ==
    CASE resp.op \in {"analise_partido", "buscar_cargos_eleitos_partido"} ->
            CargosParams(p, resp.args.abrangencia, resp.args.territorio,
                         resp.args.municipio).partido
      [] resp.op \in {"votos_partido", "buscar_votos_partido"} ->
            VotosParams(p, resp.args.sigla_uf, resp.args.cargo, resp.args.ano,
                        resp.fn.params.turnos).sigla_partido
      [] resp.op = "buscar_custo_por_voto_eleitos" ->
            CustoParams(resp.args.anos, resp.args.cargos, resp.args.siglas_uf,
                        p).sigla_partido
      [] resp.op = "buscar_distribuicao_fundo_eleitoral" ->
            FundoParams(resp.args.anos, resp.args.cargos, resp.args.siglas_uf,
                        p).sigla_partido

\* C6: the party parameter bound is the given party code in upper case, and
\* a code that differs from it only in letter case binds the same value
C6_PartyBoundUpperCase ==
    (pc = "done" /\ resp.op \in PartyReports /\ resp.fn.issued) =>
        /\ Len(PartyBound) = Len(PartyGiven)
        /\ \A i \in DOMAIN PartyBound :
               /\ PartyBound[i] # "a"
               /\ PartyGiven[i] # "a" => PartyBound[i] = PartyGiven[i]
               /\ PartyGiven[i] = "a" => PartyBound[i] = "A"
        /\ \A p \in PartyStrs :
               SameIgnoringCase(p, PartyGiven) => PartyBoundFor(p) = PartyBound

C6_Witness ==
    /\ Finished("votos_partido")
    /\ resp.fn.issued
    /\ resp.args.sigla_partido = <<"a", "A">>
    /\ resp.fn.params.sigla_partido = <<"A", "A">>

\* the string with its leading and trailing blanks removed has fewer than n
\* characters: no two non-blank positions are n-1 or more apart
TrimmedShorterThan(s, n) ==
    \A i, j \in DOMAIN s : (s[i] # " " /\ s[j] # " " /\ i <= j) => j - i + 1 < n

\* C7: a candidate search whose term has fewer than 2 characters after
\* trimming is answered 400 and issues no query, whatever the limit
C7_ShortTermRejected ==
    (Finished("buscar_politico") /\ TrimmedShorterThan(resp.input.nome, 2))
    => (/\ resp.status = 400
        /\ ~resp.called
        /\ ~resp.fn.issued)

C7_Witness ==
    /\ Finished("buscar_politico")
    /\ resp.input.nome = <<" ", "a">>
    /\ resp.input.limit = 10000
    /\ resp.status = 400

\* C8: the limit bound by a candidate search lies in 1..500: 500 for a
\* request above 500, 1 for a request below 1, the request otherwise
C8_LimitClamped ==
    (Finished("buscar_politico") /\ resp.fn.issued) =>
        LET asked == resp.input.limit
            bound == resp.fn.params.limit
        IN  /\ bound \in 1..500
            /\ asked > 500 => bound = 500
            /\ asked < 1 => bound = 1
            /\ asked \in 1..500 => bound = asked

C8_Witness ==
    /\ Finished("buscar_politico")
    /\ resp.fn.issued
    /\ resp.input.limit = 0
    /\ resp.fn.params.limit = 1

ZeroOrNull(x) == IsNull(x) \/ x.num = 0

\* C9: when the warehouse answers, the vote-share, cost-per-vote and fund
\* reports complete without error, and a ratio whose denominator is zero or
\* NULL is None in the output row
C9_NullSafeRatios ==
    (pc = "done" /\ resp.fn.issued /\ ~resp.wh.fails) =>
        /\ resp.op \in {"votos_partido", "buscar_votos_partido"} =>
              /\ resp.fn.exc = "none"
              /\ Len(resp.fn.rows) = Len(resp.wh.data)
              /\ \A i \in DOMAIN resp.wh.data :
                     ZeroOrNull(resp.wh.data[i].votos_validos) =>
                         /\ resp.fn.rows[i].prop_votos_validos = Null
                         /\ resp.fn.rows[i].perc_votos_validos = Null
        /\ resp.op \in {"buscar_custo_por_voto_eleitos",
                        "buscar_distribuicao_fundo_eleitoral"} =>
              /\ resp.fn.exc = "none"
              /\ Len(resp.fn.rows) = Len(resp.wh.data)
              /\ \A i \in DOMAIN resp.wh.data :
                     ZeroOrNull(resp.wh.data[i].votos) =>
                         resp.fn.rows[i].custo_por_voto = Null

C9_Witness ==
    /\ Finished("buscar_custo_por_voto_eleitos")
    /\ resp.fn.issued
    /\ resp.fn.exc = "none"
    /\ Len(resp.wh.data) = 1
    /\ resp.wh.data[1].votos = Val(0, 1)
    /\ resp.wh.data[1].despesas_totais = Val(3, 1)
    /\ resp.fn.rows[1].custo_por_voto = Null

\* empty, or blanks only
BlankOnly(s) == \A i \in DOMAIN s : s[i] = " "

\* C10: the cost-per-vote and fund reports raise the validation error, with
\* no query issued, whenever anos, cargos or siglas_uf is empty or
\* sigla_partido is absent, empty or blank; they issue a query only when all
\* four are given
C10_FourParametersRequired ==
    (/\ pc = "done"
     /\ resp.op \in {"buscar_custo_por_voto_eleitos",
                     "buscar_distribuicao_fundo_eleitoral"}) =>
        LET bad == \/ resp.input.anos = <<>>
                   \/ resp.input.cargos = <<>>
                   \/ resp.input.siglas_uf = <<>>
                   \/ resp.input.sigla_partido = None
                   \/ BlankOnly(resp.input.sigla_partido)
        IN  /\ bad => /\ resp.fn.exc = "ValueError"
                      /\ resp.fn.origin = "validation"
                      /\ ~resp.fn.clientObtained
                      /\ ~resp.fn.issued
            /\ resp.fn.issued => ~bad

C10_Witness ==
    /\ Finished("buscar_distribuicao_fundo_eleitoral")
    /\ resp.input.anos = <<2022>>
    /\ resp.input.cargos # <<>>
    /\ resp.input.siglas_uf # <<>>
    /\ resp.input.sigla_partido = <<" ", " ">>
    /\ resp.fn.exc = "ValueError"
    /\ ~resp.fn.issued

\* the pieces of the turnos string, split at commas and trimmed
TurnoPieces(s) == LET parts == Split(s) IN {Strip(parts[i]) : i \in DOMAIN parts}

\* the string gives no turno: absent, empty, or only blanks and commas
NoTurnoGiven(s) == s = None \/ \A i \in DOMAIN s : s[i] \in {" ", ","}

\* the string gives a turno that is not 1 or 2, or not a number
BadTurnoGiven(s) ==
    s # None /\ \E piece \in TurnoPieces(s) : piece \notin {<<>>, <<"1">>, <<"2">>}

\* C11: a votos-partido request issues a query only with ano in 2000..2100
\* and a non-empty turnos list within {1, 2}, which is [1, 2] when the
\* request gives no turno; a request whose ano is out of range or that gives
\* a turno other than 1 or 2, or a non-number, is answered 400 with no query
C11_VotosPartidoAnoAndTurnos ==
    Finished("votos_partido") =>
        /\ resp.fn.issued =>
              /\ resp.fn.params.ano_alvo \in 2000..2100
              /\ resp.fn.params.ano_alvo = resp.input.ano
              /\ resp.fn.params.turnos # <<>>
              /\ \A i \in DOMAIN resp.fn.params.turnos :
                     resp.fn.params.turnos[i] \in {1, 2}
              /\ NoTurnoGiven(resp.input.turnos) => resp.fn.params.turnos = <<1, 2>>
        /\ (\/ resp.input.ano \notin 2000..2100
            \/ BadTurnoGiven(resp.input.turnos))
              => (resp.status = 400 /\ ~resp.called /\ ~resp.fn.issued)

C11_Witness ==
    /\ Finished("votos_partido")
    /\ resp.input.turnos = <<",">>
    /\ resp.input.ano = 2100
    /\ resp.fn.issued
    /\ resp.fn.params.turnos = <<1, 2>>

CargosOps == {"analise_partido", "buscar_cargos_eleitos_partido"}

\* C12 as claimed: the rows returned are strictly descending by count, rows
\* of equal count in the order of the groups
C12_StrictlyDescendingStable ==
    (pc = "done" /\ resp.op \in CargosOps /\ resp.fn.issued /\ resp.fn.exc = "none") =>
        /\ \A i, j \in DOMAIN resp.fn.rows :
               i < j => resp.fn.rows[i].total_cargos_eleitos
                            > resp.fn.rows[j].total_cargos_eleitos
        /\ \A i, j \in DOMAIN resp.fn.rows :
               (/\ i < j
                /\ resp.fn.rows[i].total_cargos_eleitos
                       = resp.fn.rows[j].total_cargos_eleitos)
               => \E a, b \in DOMAIN resp.wh.groups :
                      /\ a < b
                      /\ resp.wh.groups[a] = resp.fn.rows[i]
                      /\ resp.wh.groups[b] = resp.fn.rows[j]

\* C12 as amended: the rows returned are the groups, each once, in
\* descending (non-increasing) order of count
C12_DescendingByCount ==
    (pc = "done" /\ resp.op \in CargosOps /\ resp.fn.issued /\ resp.fn.exc = "none") =>
        /\ Len(resp.fn.rows) = Len(resp.wh.groups)
        /\ \A a \in DOMAIN resp.wh.groups :
               \E i \in DOMAIN resp.fn.rows : resp.fn.rows[i] = resp.wh.groups[a]
        /\ \A i, j \in DOMAIN resp.fn.rows :
               i < j => resp.fn.rows[i].total_cargos_eleitos
                            >= resp.fn.rows[j].total_cargos_eleitos

C12_Witness ==
    /\ Finished("analise_partido")
    /\ resp.fn.exc = "none"
    /\ Len(resp.fn.rows) = 2
    /\ resp.wh.groups[1].cargo = "prefeito"
    /\ resp.fn.rows[1] = [cargo |-> "vereador", total_cargos_eleitos |-> 2]
    /\ resp.fn.rows[2] = [cargo |-> "prefeito", total_cargos_eleitos |-> 1]

\* a user request was answered in this step
Answered(op) == pc = "idle" /\ pc' = "done" /\ resp'.op = op

\* the operations behind Depends(auth.verificar_token)
ProtectedOps ==
    {"buscar", "listar_usuarios", "obter_usuario", "atualizar_usuario",
     "deletar_usuario"}

UserOps == ProtectedOps \cup {"login", "criar_usuario"}

\* C13: a create request whose email a stored row holds is answered 400
\* 'Email ja cadastrado' and leaves the table as it was
C13_DuplicateEmailRejected ==
    [][(/\ Answered("criar_usuario")
        /\ \E u \in usuarios : u.email = resp'.input.email)
       => (/\ resp'.status = 400
           /\ resp'.detail = "Email ja cadastrado"
           /\ usuarios' = usuarios)]_vars

C13_Witness ==
    /\ Finished("criar_usuario")
    /\ resp.status = 400
    /\ \E u \in usuarios : u.email = resp.input.email

\* C14 as claimed: of create requests with the same email handled at the same
\* time one stores its row and every other one is answered with the 400
\* conflict, never with an unhandled error
C14_RaceAnsweredWithConflict ==
    /\ \A u, w \in usuarios : u.email = w.email => u = w
    /\ Finished("criar_usuario") =>
           \/ resp.status = 201
           \/ resp.status = 400 /\ resp.detail = "Email ja cadastrado"

\* the fields a read-model must not have
SenhaFields == {"senha", "senha_hash"}

\* C15: after a create answered 201, reading the new user gives the email of
\* the request and ativo = TRUE; no read-model returned by any user operation
\* has the password or its hash
C15_CreateReadRoundTrip ==
    /\ (Finished("criar_usuario") /\ resp.status = 201) =>
           \A criado \in resp.body :
               LET lido == ObterUsuarioResult([usuario_id |-> criado.id],
                               CriarTokenAcesso(resp.input.email, now),
                               usuarios, now).resp
               IN /\ lido.status = 200
                  /\ lido.body # {}
                  /\ \A r \in lido.body :
                         /\ r.email = resp.input.email
                         /\ r.ativo = TRUE
                         /\ r.id = criado.id
    /\ (Finished("criar_usuario") /\ resp.status = 201) => resp.body # {}
    /\ (pc = "done" /\ resp.op \in UserOps) =>
           \A r \in resp.body : DOMAIN r \cap SenhaFields = {}

C15_Witness ==
    /\ Finished("criar_usuario")
    /\ resp.status = 201
    /\ \E r \in resp.body : r.email = "a@x" /\ r.ativo

\* the subject of the token carried has a row, and it is active
SubjectActive(cred) == \E u \in usuarios : u.email = cred.sub /\ u.ativo

\* C16: while the subject's row exists and is active, a request carrying an
\* issued token is admitted at any time before the token's expiry and answered
\* 401 at any time after it
C16_TokenValidUntilExpiry ==
    [][(/\ pc = "idle" /\ pc' = "done" /\ resp'.op \in ProtectedOps
        /\ resp'.cred.kind = "jwt"
        /\ SubjectActive(resp'.cred))
       => (/\ now < resp'.cred.exp => resp'.auth = 200
           /\ now > resp'.cred.exp => (resp'.auth = 401 /\ resp'.status = 401))]_vars

C16_Witness ==
    /\ Finished("buscar")
    /\ resp.cred.kind = "jwt"
    /\ resp.cred.exp < now
    /\ SubjectActive(resp.cred)
    /\ resp.status = 401

\* C17 as claimed: a token held that verifies resolves to the row, by id, of
\* the user whose login issued it
C17_TokenKeepsIdentity ==
    \A k \in tokens :
        LET v == VerificarToken(k.jwt, usuarios, now)
        IN v.status = 200 => v.usuario.id = k.usuario_id

\* C18: a request to a protected operation carrying a token that decodes and
\* whose subject's row has ativo = FALSE is answered 403, returns nothing and
\* leaves the table as it was
C18_InactiveNeverAdmitted ==
    [][(/\ pc = "idle" /\ pc' = "done" /\ resp'.op \in ProtectedOps
        /\ resp'.cred.kind = "jwt"
        /\ now <= resp'.cred.exp
        /\ \E u \in usuarios : u.email = resp'.cred.sub /\ ~u.ativo)
       => (/\ resp'.auth = 403
           /\ resp'.status = 403
           /\ resp'.body = {}
           /\ usuarios' = usuarios)]_vars

C18_Witness ==
    /\ Finished("deletar_usuario")
    /\ resp.cred.kind = "jwt"
    /\ resp.status = 403
    /\ \E u \in usuarios : u.id = resp.input.usuario_id

\* C19: login issues a token exactly when a row has the email, the password
\* is the one hashed in it and the row is active; no row and a wrong password
\* are both answered 401 with the same text, the right password of an
\* inactive row 403; a failing login issues nothing and changes no row
C19_LoginIssuesOnlyForActiveMatch ==
    [][Answered("login") =>
        LET rows == {u \in usuarios : u.email = resp'.input.email}
            matches == \E u \in rows : u.senha_hash.senha = resp'.input.senha
            active == \E u \in rows : u.ativo
        IN /\ (resp'.token # NoToken) <=> (rows # {} /\ matches /\ active)
           /\ (resp'.token # NoToken) =>
                  (/\ resp'.status = 200
                   /\ resp'.token.sub = resp'.input.email
                   /\ tokens' = tokens \cup {[jwt |-> resp'.token,
                                             usuario_id |-> (CHOOSE u \in rows : TRUE).id]})
           /\ (rows = {} \/ ~matches) =>
                  (resp'.status = 401 /\ resp'.detail = "Email ou senha incorretos")
           /\ (rows # {} /\ matches /\ ~active) => resp'.status = 403
           /\ (resp'.token = NoToken) => tokens' = tokens
           /\ usuarios' = usuarios]_vars

C19_Witness ==
    /\ Finished("login")
    /\ resp.status = 403
    /\ \E u \in usuarios : u.email = resp.input.email /\ ~u.ativo

\* the token carried decodes and its subject's row is active
Admitted(cred) ==
    /\ cred.kind = "jwt"
    /\ now <= cred.exp
    /\ SubjectActive(cred)

\* the token carried is missing, invalid or expired
NoValidToken(cred) == cred.kind # "jwt" \/ cred.exp < now

\* C20: create is answered without a token; list, read, update and delete
\* return rows or change the table only when the token carried is admitted,
\* and with a missing, invalid or expired token they answer 401 and leave the
\* table as it was
C20_OnlyCreateUnauthenticated ==
    [][(pc = "idle" /\ pc' = "done") =>
        /\ resp'.op = "criar_usuario" => (resp'.cred = NoToken /\ resp'.auth = 0)
        /\ resp'.op \in ProtectedOps \ {"buscar"} =>
              /\ ~Admitted(resp'.cred) =>
                     (/\ usuarios' = usuarios
                      /\ resp'.body = {}
                      /\ resp'.status \in {401, 403})
              /\ NoValidToken(resp'.cred) =>
                     (resp'.status = 401 /\ usuarios' = usuarios)]_vars

C20_Witness ==
    /\ Finished("deletar_usuario")
    /\ resp.cred.kind = "jwt"
    /\ resp.cred.exp < now
    /\ resp.status = 401
    /\ \E u \in usuarios : u.id = resp.input.usuario_id

\* C21: an admitted update whose email differs from the target's and is held
\* by another row is answered 400 and leaves every row as it was, whatever
\* other fields the request carries
C21_UpdateEmailConflict ==
    [][(/\ Answered("atualizar_usuario")
        /\ Admitted(resp'.cred)
        /\ "email" \in DOMAIN resp'.input.update
        /\ \E u \in usuarios :
               /\ u.id = resp'.input.usuario_id
               /\ u.email # resp'.input.update["email"]
        /\ \E o \in usuarios :
               /\ o.id # resp'.input.usuario_id
               /\ o.email = resp'.input.update["email"])
       => (/\ resp'.status = 400
           /\ resp'.detail = "Email ja esta em uso por outro usuario"
           /\ resp'.body = {}
           /\ usuarios' = usuarios)]_vars

C21_Witness ==
    /\ Finished("atualizar_usuario")
    /\ resp.status = 400
    /\ "ativo" \in DOMAIN resp.input.update
    /\ \E u \in usuarios : u.id = resp.input.usuario_id /\ u.ativo

\* the operations that look a row up by id
ById == {"obter_usuario", "atualizar_usuario", "deletar_usuario"}

\* C22: an admitted read, update or delete of an id no row has is answered
\* 404 and leaves the table as it was
C22_MissingIdNotFound ==
    [][(/\ pc = "idle" /\ pc' = "done" /\ resp'.op \in ById
        /\ Admitted(resp'.cred)
        /\ \A u \in usuarios : u.id # resp'.input.usuario_id)
       => (/\ resp'.status = 404
           /\ resp'.detail = "Usuario nao encontrado"
           /\ resp'.body = {}
           /\ usuarios' = usuarios)]_vars

C22_Witness ==
    /\ Finished("deletar_usuario")
    /\ resp.status = 404
    /\ usuarios # {}

\* C23: whatever the interleaving of create, update and delete requests, no
\* two rows of the table hold the same email
C23_UniqueEmail ==
    \A u, w \in usuarios : u.email = w.email => u = w

C23_Witness ==
    /\ Finished("atualizar_usuario")
    /\ resp.status = 500
    /\ resp.detail = "IntegrityError"
    /\ Cardinality(usuarios) = 2

\* the row of the update's id before (u) and after (n) has every column named
\* in the request set to the request's value, senha as a hash of it under
\* senha_hash and a non-empty uf in upper case, and every other column but
\* atualizado_em as it was
CamposAplicados(u, n, upd) ==
    /\ n.id = u.id
    /\ n.nome_completo = IF "nome_completo" \in DOMAIN upd THEN upd["nome_completo"]
                         ELSE u.nome_completo
    /\ n.email = IF "email" \in DOMAIN upd THEN upd["email"] ELSE u.email
    /\ n.ativo = IF "ativo" \in DOMAIN upd THEN upd["ativo"] ELSE u.ativo
    /\ IF "uf" \in DOMAIN upd
       THEN /\ Len(n.uf) = Len(upd["uf"])
            /\ \A i \in DOMAIN n.uf :
                   n.uf[i] \in {"A", " "} /\ (n.uf[i] = " " <=> upd["uf"][i] = " ")
       ELSE n.uf = u.uf
    /\ IF "senha" \in DOMAIN upd
       THEN n.senha_hash.alg = "bcrypt" /\ n.senha_hash.senha = upd["senha"]
       ELSE n.senha_hash = u.senha_hash

C25_InactiveUserLockedOut ==
    [][/\ (/\ pc = "idle" /\ pc' = "done" /\ resp'.op \in ProtectedOps
           /\ \E k \in tokens :
                  /\ k.jwt = resp'.cred
                  /\ now <= k.jwt.exp
                  /\ \E u \in usuarios : u.id = k.usuario_id /\ ~u.ativo)
          => (resp'.status = 403 /\ usuarios' = usuarios)
       /\ (/\ Answered("login")
           /\ \E u \in usuarios : u.email = resp'.input.email /\ ~u.ativo)
          => (resp'.token = NoToken /\ tokens' = tokens)]_vars

====
